---- MODULE Spec2Model ----
(***************************************************************************)
(* Discount aggregator (src/main.py): the POST /api/get-discounts handler, *)
(* its request validation, the three source fetchers it gathers, and the   *)
(* GET / route.                                                            *)
(*                                                                         *)
(* A string is modelled as the sequence of its Unicode code points, so     *)
(* that str.isdigit() and len() are computed as Python computes them.      *)
(* A request handler runs without interruption up to its first await, so   *)
(* one action covers arrival, validation and the dispatch of the tasks;    *)
(* each task then settles in its own step, in any order; a last step       *)
(* resumes the handler after asyncio.gather.  Every step takes one unit of *)
(* time.  A request owns its aggregator and its tasks (no state is shared  *)
(* between requests), so requests are modelled one at a time.              *)
(***************************************************************************)
EXTENDS Integers, Sequences, FiniteSets, TLC

VARIABLES
    pc,            \* "idle" | "gathering" | "done": where the handler stands
    req,           \* the DiscountRequest being served
    tasks,         \* the coroutines handed to asyncio.gather, in order
    response,      \* what the caller receives
    now,           \* the clock datetime.now() reads
    arrivedAt,     \* observation: the time the request arrived
    lastSettledAt, \* observation: the time the latest task settled
    admitted,      \* observation: per caller, the arrival times of the requests served
    snapshotLog    \* observation: one entry per GET / call

vars == <<pc, req, tasks, response, now, arrivedAt, lastSettledAt, admitted, snapshotLog>>

----------------------------------------------------------------------------
(* Bounds of the model *)

\* the longest stores list and categories list together
MaxKeys == 3
\* the most items a source's page or feed holds
MaxItems == 1
\* the longest zip string enumerated
MaxZipLen == 6
\* the most requests served one after another
MaxRequests == 11
\* the most GET / calls
MaxSnapshotCalls == 3
\* the latest time the idle server is let to wait
MaxIdleTime == 12

----------------------------------------------------------------------------
(* Values *)

Range(s) == {s[i] : i \in DOMAIN s}

SeqsUpTo(S, n) == UNION {[1..k -> S] : k \in 0..n}

Take(s, n) == SubSeq(s, 1, IF Len(s) < n THEN Len(s) ELSE n)

EmptyMap == [k \in {} |-> <<>>]

\* d[k] = v of a Python dict: a new key is added, an old key overwritten
Put(d, k, v) == [x \in (DOMAIN d) \cup {k} |-> IF x = k THEN v ELSE d[x]]

\* what a coroutine hands back: a value, or an exception
Return(v) == [raised |-> FALSE, value |-> v]

Raise == [raised |-> TRUE, value |-> <<>>]

Callers == {"10.0.0.1", "10.0.0.2"}

Countries == {"US", "CA", "us"}

\* a store with a fetcher, the feed's key, and a store without a fetcher
StoreKeys == {"amazon", "slickdeals", "costco"}

CategoryKeys == {"restaurants", "pets"}

DefaultStores == <<"amazon", "walmart", "target", "slickdeals">>

DefaultCategories == <<>>

\* the code points a zip is drawn from: '0', '9', 'a', and U+0661
\* ARABIC-INDIC DIGIT ONE
ZipAlphabet == {48, 57, 97, 1633}

\* "10001", "1000", "100010", "1000a", "", and "1000" followed by U+0661
ZipSamples ==
    { <<49, 48, 48, 48, 49>>, <<49, 48, 48, 48>>, <<49, 48, 48, 48, 49, 48>>,
      <<49, 48, 48, 48, 97>>, <<>>, <<49, 48, 48, 48, 1633>> }

\* what the network call inside a fetcher can do
Outcomes ==
    {[kind |-> "ok", n |-> k] : k \in 0..MaxItems}
      \cup {[kind |-> e, n |-> 0] : e \in {"network_error", "timeout", "parse_error"}}

NoRequest == [country |-> "", zip |-> <<>>, stores |-> <<>>, categories |-> <<>>, caller |-> ""]

NoResponse ==
    [status |-> 0, detail |-> "", slickdeals |-> <<>>, store_deals |-> EmptyMap,
     category_deals |-> EmptyMap, timestamp |-> -1]

HTTPError(code, text) == [NoResponse EXCEPT !.status = code, !.detail = text]

----------------------------------------------------------------------------
(* DiscountRequest.validate_zip *)

IsAsciiDigit(c) == c \in 48..57

\* the characters str.isdigit() takes for digits: the ASCII digits, and the
\* other characters of Unicode whose Numeric_Type is Digit or Decimal (here
\* the superscripts two, three and one and the Arabic-Indic digits)
IsUnicodeDigit(c) == c \in 48..57 \/ c \in {178, 179, 185} \/ c \in 1632..1641

isdigit(v) == Len(v) > 0 /\ \A i \in DOMAIN v : IsUnicodeDigit(v[i])

\* TRUE when the validator returns v, FALSE when it raises ValueError
validate_zip(v) == ~(~isdigit(v) \/ Len(v) # 5)

----------------------------------------------------------------------------
(* DiscountAggregator: the source fetchers.  A fetcher takes, besides its   *)
(* arguments, the outcome o of its network call: a page of o.n items, or a  *)
(* network error, a timeout (the client's 30 s) or a page that does not     *)
(* parse, each of which raises inside the fetcher.                          *)

\* the [:10] every fetcher cuts its list to
ItemLimit == 10

Deal(i, source, category) == [title |-> i, source |-> source, category |-> category]

Deals(o, source, category) == Take([i \in 1..o.n |-> Deal(i, source, category)], ItemLimit)

\* session.get and the parse: the deals, or the exception
Scrape(o, source, category) ==
    IF o.kind = "ok" THEN Return(Deals(o, source, category)) ELSE Raise

\* try: ... except Exception: return []
Caught(r) == IF r.raised THEN Return(<<>>) ELSE r

slickdeals_try(zipcode, o) == Scrape(o, "Slickdeals", "")

fetch_slickdeals_by_zip(zipcode, o) == Caught(slickdeals_try(zipcode, o))

category_map == [restaurants |-> "food-and-drink", entertainment |-> "things-to-do", clothing |-> "apparel"]

category_try(zip_code, category, o) ==
    IF category \notin DOMAIN category_map
    THEN Return(<<>>)
    ELSE Scrape(o, "Groupon", category)

fetch_category_deals(zip_code, category, o) == Caught(category_try(zip_code, category, o))

fetch_amazon_deals(o) == Scrape(o, "Amazon", "")

fetch_walmart_deals(o) == Scrape(o, "Walmart", "")

fetch_target_deals(o) == Scrape(o, "Target", "")

store_try(store, o) ==
    IF store = "amazon" THEN fetch_amazon_deals(o)
    ELSE IF store = "walmart" THEN fetch_walmart_deals(o)
    ELSE IF store = "target" THEN fetch_target_deals(o)
    ELSE Return(<<>>)

\* the fetcher without its except clause: the exception leaves it
fetch_store_deals_uncaught(store, o) == store_try(store, o)

fetch_store_deals(store, o) == Caught(store_try(store, o))

----------------------------------------------------------------------------
(* Tasks: the coroutines of one request *)

Task(kind, arg, zipcode) ==
    [kind |-> kind, arg |-> arg, zipcode |-> zipcode, status |-> "pending",
     raised |-> FALSE, failed |-> FALSE, result |-> <<>>]

\* the body of a task's fetcher, before its except clause
TaskTry(t, o) ==
    IF t.kind = "feed" THEN slickdeals_try(t.zipcode, o)
    ELSE IF t.kind = "store" THEN store_try(t.arg, o)
    ELSE category_try(t.zipcode, t.arg, o)

\* the coroutine run to its end
RunTask(t, o) ==
    IF t.kind = "feed" THEN fetch_slickdeals_by_zip(t.zipcode, o)
    ELSE IF t.kind = "store" THEN fetch_store_deals(t.arg, o)
    ELSE fetch_category_deals(t.zipcode, t.arg, o)

\* failed records that the source's fetch failed inside the fetcher
Settled(t, o) ==
    LET r == RunTask(t, o)
    IN  [t EXCEPT !.status = "done", !.raised = r.raised,
                  !.failed = TaskTry(t, o).raised, !.result = r.value]

----------------------------------------------------------------------------
(* get_discounts *)

\* a plausible slip: the comparison made case-insensitive, or dropped
country_supported_any(country) == TRUE

\* req.country != "US" raises the 400
country_supported(country) == country = "US"

\* line 199: the feed coroutine, made for every request that passes the
\* country check
slickdeals_task(r) == <<Task("feed", "slickdeals", r.zip)>>

\* line 200: [... for store in req.stores if store != "slickdeals"]
store_tasks(r) ==
    LET keys == SelectSeq(r.stores, LAMBDA s : s # "slickdeals")
    IN  [i \in 1..Len(keys) |-> Task("store", keys[i], <<>>)]

\* line 201
category_tasks(r) == [j \in 1..Len(r.categories) |-> Task("category", r.categories[j], r.zip)]

\* the argument list of asyncio.gather
gather_args(r) == slickdeals_task(r) \o store_tasks(r) \o category_tasks(r)

\* a plausible slip: resuming as soon as one task is done (FIRST_COMPLETED)
gather_ready_first(ts) == \E i \in DOMAIN ts : ts[i].status = "done"

\* await asyncio.gather(...) resumes when every task is done, or at once
\* when a task raises (return_exceptions is not set)
gather_ready(ts) ==
    IF \E i \in DOMAIN ts : ts[i].status = "done" /\ ts[i].raised
    THEN TRUE
    ELSE \A i \in DOMAIN ts : ts[i].status = "done"

\* what the await evaluates to: the results in argument order, or the
\* exception of a task that raised
gather(ts) ==
    IF \E i \in DOMAIN ts : ts[i].status = "done" /\ ts[i].raised
    THEN Raise
    ELSE Return([i \in DOMAIN ts |-> ts[i].result])

\* a plausible slip: the list taken unfiltered
non_slick_stores_unfiltered(stores) == stores

\* line 212
non_slick_stores(stores) == SelectSeq(stores, LAMBDA s : s # "slickdeals")

\* a plausible slip: the feed's place at the head of results forgotten
store_index_no_feed(i) == i

\* results[i + 1] of line 214, for the i-th store counted from 1 (results
\* is indexed from 1 here, so results[0] of the code is results[1])
store_index(i) == i + 1

\* results[len(non_slick_stores) + 1 + j] of line 217, for the j-th
\* category counted from 1
category_index(stores, j) == Len(non_slick_stores(stores)) + 1 + j

\* a plausible slip: the time read when the request arrived
timestamp_at_arrival(arrival, clock) == arrival

\* datetime.now() of line 209
timestamp_now(arrival, clock) == clock

RECURSIVE StoreLoop(_, _, _, _)
\* lines 213-214: for i, store in enumerate(non_slick_stores)
StoreLoop(nss, results, i, acc) ==
    IF i > Len(nss) THEN acc
    ELSE StoreLoop(nss, results, i + 1, Put(acc, nss[i], results[store_index(i)]))

RECURSIVE CategoryLoop(_, _, _, _)
\* lines 216-217: for j, cat in enumerate(req.categories)
CategoryLoop(r, results, j, acc) ==
    IF j > Len(r.categories) THEN acc
    ELSE CategoryLoop(r, results, j + 1,
                      Put(acc, r.categories[j], results[category_index(r.stores, j)]))

\* the subscripts lines 206-217 read; one outside the list is an IndexError
Subscripts(r) ==
    {1} \cup {store_index(i) : i \in 1..Len(non_slick_stores(r.stores))}
        \cup {category_index(r.stores, j) : j \in 1..Len(r.categories)}

\* lines 205-219: the response dictionary, or the exception
Assemble(r, results, arrival, clock) ==
    IF \E k \in Subscripts(r) : k \notin DOMAIN results
    THEN Raise
    ELSE Return([status |-> 200, detail |-> "",
                 slickdeals |-> results[1],
                 store_deals |-> StoreLoop(non_slick_stores(r.stores), results, 1, EmptyMap),
                 category_deals |-> CategoryLoop(r, results, 1, EmptyMap),
                 timestamp |-> timestamp_now(arrival, clock)])

\* lines 203-223, from the await on
AfterGather(r, ts, arrival, clock) ==
    LET g == gather(ts)
        a == IF g.raised THEN Raise ELSE Assemble(r, g.value, arrival, clock)
    IN  IF a.raised THEN HTTPError(500, "Internal server error") ELSE a.value

----------------------------------------------------------------------------
(* Actions *)

Init ==
    /\ pc = "idle"
    /\ req = NoRequest
    /\ tasks = <<>>
    /\ response = NoResponse
    /\ now = 0
    /\ arrivedAt = 0
    /\ lastSettledAt = 0
    /\ admitted = [c \in Callers |-> <<>>]
    /\ snapshotLog = <<>>

\* POST /api/get-discounts: the body is validated (a ValueError of
\* validate_zip is answered 422 and the handler is not called), then the
\* handler runs to its await
Post(r) ==
    /\ pc = "idle"
    /\ req' = r
    /\ arrivedAt' = now
    /\ now' = now + 1
    /\ admitted' = [admitted EXCEPT ![r.caller] = Append(@, now)]
    /\ IF ~validate_zip(r.zip)
       THEN /\ response' = HTTPError(422, "ZIP code must be 5 digits")
            /\ tasks' = <<>>
            /\ pc' = "done"
       ELSE IF ~country_supported(r.country)
       THEN /\ response' = HTTPError(400, "Only USA is currently supported")
            /\ tasks' = <<>>
            /\ pc' = "done"
       ELSE /\ response' = NoResponse
            /\ tasks' = gather_args(r)
            /\ pc' = "gathering"
    /\ UNCHANGED <<lastSettledAt, snapshotLog>>

\* one task's fetcher comes to its end
TaskSettle(i, o) ==
    /\ pc = "gathering"
    /\ i \in DOMAIN tasks
    /\ tasks[i].status = "pending"
    /\ tasks' = [tasks EXCEPT ![i] = Settled(@, o)]
    /\ lastSettledAt' = now
    /\ now' = now + 1
    /\ UNCHANGED <<pc, req, response, arrivedAt, admitted, snapshotLog>>

\* the handler resumes after the await and answers
GatherResume ==
    /\ pc = "gathering"
    /\ gather_ready(tasks)
    /\ response' = AfterGather(req, tasks, arrivedAt, now)
    /\ pc' = "done"
    /\ now' = now + 1
    /\ UNCHANGED <<req, tasks, arrivedAt, lastSettledAt, admitted, snapshotLog>>

\* the requests of the model: every stores list and categories list of at
\* most MaxKeys keys together, and the request that leaves both out
Requests(countries, zips, callers) ==
    {[country |-> c, zip |-> z, stores |-> s, categories |-> k, caller |-> a] :
        c \in countries, z \in zips, a \in callers,
        s \in SeqsUpTo(StoreKeys, MaxKeys), k \in SeqsUpTo(CategoryKeys, MaxKeys)}

PostAny ==
    \E r \in {x \in Requests(Countries, ZipSamples, {"10.0.0.1"}) :
                 Len(x.stores) + Len(x.categories) <= MaxKeys}
             \cup {[country |-> c, zip |-> z, stores |-> DefaultStores,
                    categories |-> DefaultCategories, caller |-> "10.0.0.1"] :
                      c \in Countries, z \in ZipSamples} :
        Post(r)

Settle == \E i \in DOMAIN tasks : \E o \in Outcomes : TaskSettle(i, o)

Next == PostAny \/ Settle \/ GatherResume

Spec == Init /\ [][Next]_vars

----------------------------------------------------------------------------
(* The server over time: requests one after another, and GET / *)

\* the connection is closed and the next request can arrive
Finish ==
    /\ pc = "done"
    /\ pc' = "idle"
    /\ req' = NoRequest
    /\ tasks' = <<>>
    /\ response' = NoResponse
    /\ now' = now + 1
    /\ UNCHANGED <<arrivedAt, lastSettledAt, admitted, snapshotLog>>

\* time passes on the idle server
Wait ==
    /\ pc = "idle"
    /\ now < MaxIdleTime
    /\ now' = now + 1
    /\ UNCHANGED <<pc, req, tasks, response, arrivedAt, lastSettledAt, admitted, snapshotLog>>

\* GET /: the status message; no aggregator is made and no fetcher called.
\* The log entry records when the call came and how many aggregations it
\* started.
read_root ==
    /\ pc = "idle"
    /\ Len(snapshotLog) < MaxSnapshotCalls
    /\ response' = [NoResponse EXCEPT !.status = 200,
                                      !.detail = "Discount Aggregator API is running"]
    /\ snapshotLog' = Append(snapshotLog, [at |-> now, recomputations |-> 0])
    /\ now' = now + 1
    /\ UNCHANGED <<pc, req, tasks, arrivedAt, lastSettledAt, admitted>>

\* requests with every zip of at most MaxZipLen characters
PostZip ==
    \E z \in SeqsUpTo(ZipAlphabet, MaxZipLen) : \E s \in {<<"slickdeals">>, <<>>} :
        Post([country |-> "US", zip |-> z, stores |-> s,
              categories |-> DefaultCategories, caller |-> "10.0.0.1"])

NextZip == PostZip \/ Settle \/ GatherResume

SpecZip == Init /\ [][NextZip]_vars

RequestsServed == Len(admitted["10.0.0.1"]) + Len(admitted["10.0.0.2"])

\* one request after another, from either caller
PostNext ==
    /\ RequestsServed < MaxRequests
    /\ \E a \in Callers :
          Post([country |-> "US", zip |-> <<49, 48, 48, 48, 49>>, stores |-> <<"slickdeals">>,
                categories |-> DefaultCategories, caller |-> a])

NextRate == PostNext \/ Settle \/ GatherResume \/ Finish

SpecRate == Init /\ [][NextRate]_vars

NextSnapshot == read_root \/ Wait

SpecSnapshot == Init /\ [][NextSnapshot]_vars

----------------------------------------------------------------------------
(* Properties *)

\* the request was not turned away by the validation or the country check
Accepted == pc # "idle" /\ response.status \notin {400, 422}

Answered == pc = "done" /\ Accepted

RequestedStores == Range(req.stores) \ {"slickdeals"}

TasksFor(kind, arg) == {i \in DOMAIN tasks : tasks[i].kind = kind /\ tasks[i].arg = arg}

\* the last task made for a key: the one whose result the dictionary keeps
LastFor(kind, arg) == CHOOSE i \in TasksFor(kind, arg) : \A j \in TasksFor(kind, arg) : j <= i

Ascii5(v) == Len(v) = 5 /\ \A i \in DOMAIN v : IsAsciiDigit(v[i])

\* C1: every answered request that was accepted is answered 200 with a
\* store_deals whose keys are exactly the requested store keys other than
\* "slickdeals", whichever fetches failed; a store all of whose fetches
\* failed is there, with an empty list.
C1_StoreKeysExact ==
    Answered =>
        /\ response.status = 200
        /\ DOMAIN response.store_deals = RequestedStores
        /\ \A s \in RequestedStores :
              (\A i \in TasksFor("store", s) : tasks[i].failed) => response.store_deals[s] = <<>>

C1_Witness ==
    /\ Answered
    /\ response.status = 200
    /\ "slickdeals" \in Range(req.stores)
    /\ \E s, t \in RequestedStores :
          /\ tasks[LastFor("store", s)].failed
          /\ response.store_deals[s] = <<>>
          /\ response.store_deals[t] # <<>>

\* C2 (as claimed): a request whose zip is not exactly 5 ASCII digits is
\* rejected, and no fetch task is made for it.
C2_NonAsciiZipRejected ==
    (pc # "idle" /\ ~Ascii5(req.zip)) => (response.status = 422 /\ tasks = <<>>)

\* C3: a request whose country is not "US" ends in a client error with no
\* fetch task made: 400 from get_discounts whenever the body passed
\* validation (422 only for a zip that is not 5 ASCII digits).
C3_NonUSRejected ==
    (pc # "idle" /\ req.country # "US") =>
        /\ pc = "done"
        /\ tasks = <<>>
        /\ response.status \in {400, 422}
        /\ Ascii5(req.zip) => response.status = 400

C3_Witness ==
    /\ pc = "done"
    /\ req.country = "CA"
    /\ Ascii5(req.zip)
    /\ response.status = 400
    /\ Len(req.stores) > 0
    /\ Len(req.categories) > 0

\* the response's entry for the source of task i
Entry(i) ==
    IF tasks[i].kind = "feed" THEN response.slickdeals
    ELSE IF tasks[i].kind = "store" THEN response.store_deals[tasks[i].arg]
    ELSE response.category_deals[tasks[i].arg]

EntryPresent(i) ==
    IF tasks[i].kind = "feed" THEN TRUE
    ELSE IF tasks[i].kind = "store" THEN tasks[i].arg \in DOMAIN response.store_deals
    ELSE tasks[i].arg \in DOMAIN response.category_deals

\* C4: whichever fetches fail, an accepted request is answered 200, never
\* 500; the entry of a source whose fetch failed is the empty list, and the
\* entry of every other source holds the records its own fetch returned
\* (for a key requested twice, those of its last fetch).
C4_FailureIsolated ==
    Answered =>
        /\ response.status = 200
        /\ \A i \in DOMAIN tasks :
              i = LastFor(tasks[i].kind, tasks[i].arg) =>
                  /\ EntryPresent(i)
                  /\ tasks[i].failed => Entry(i) = <<>>
                  /\ ~tasks[i].failed => Entry(i) = tasks[i].result

C4_Witness ==
    /\ Answered
    /\ response.status = 200
    /\ Cardinality({i \in DOMAIN tasks : tasks[i].failed}) = 1
    /\ \E i, j, k \in DOMAIN tasks :
          /\ tasks[i].kind = "store" /\ tasks[i].failed /\ Entry(i) = <<>>
          /\ tasks[j].kind = "store" /\ Entry(j) # <<>>
          /\ tasks[k].kind = "store" /\ k # j /\ Entry(k) # <<>>
          /\ response.slickdeals # <<>>

FeedTasks == {i \in DOMAIN tasks : tasks[i].kind = "feed"}

\* C5 (as claimed): a feed task is made exactly when "slickdeals" is among
\* the requested stores: one, with the request's zip, when it is, and none
\* when it is not.
C5_FeedTaskIffRequested ==
    Accepted =>
        /\ Cardinality(FeedTasks) = (IF "slickdeals" \in Range(req.stores) THEN 1 ELSE 0)
        /\ \A i \in FeedTasks : tasks[i].zipcode = req.zip

\* the quota of the rate limiter the specification describes, and its window
Quota == 10

RateWindow == 60

\* C6 (as claimed): of one caller's requests, no more than Quota are served
\* within one window: a request arriving when Quota requests of the caller
\* were served in the window before it is turned away.
C6_EleventhRejected ==
    \A c \in Callers : \A k \in DOMAIN admitted[c] :
        Cardinality({j \in 1..(k - 1) : admitted[c][k] - admitted[c][j] < RateWindow}) < Quota

\* the time to live of the snapshot the specification describes
CacheTTL == 5

\* C7 (as claimed): two GET / calls less than a time to live apart start at
\* most one recomputation between them, and a call that comes a time to
\* live or more after every call before it starts exactly one.
C7_SnapshotCached ==
    \A j \in DOMAIN snapshotLog :
        /\ \A i \in 1..(j - 1) :
              snapshotLog[j].at - snapshotLog[i].at < CacheTTL =>
                  snapshotLog[i].recomputations + snapshotLog[j].recomputations <= 1
        /\ (j > 1 /\ \A i \in 1..(j - 1) : snapshotLog[j].at - snapshotLog[i].at >= CacheTTL) =>
              snapshotLog[j].recomputations = 1

\* C8: in a 200 response, the slickdeals field is the result of the feed
\* task made with the request's zip; store_deals[s] is the result of the
\* last fetch_store_deals task made for s; category_deals[c] is the result
\* of the last fetch_category_deals task made for (zip, c); and no key other
\* than the requested ones is there.
C8_ResultsCorrelated ==
    (pc = "done" /\ response.status = 200 /\ req # NoRequest) =>
        /\ \E i \in FeedTasks : tasks[i].zipcode = req.zip /\ response.slickdeals = tasks[i].result
        /\ DOMAIN response.store_deals = RequestedStores
        /\ \A s \in RequestedStores :
              /\ TasksFor("store", s) # {}
              /\ response.store_deals[s] = tasks[LastFor("store", s)].result
        /\ DOMAIN response.category_deals = Range(req.categories)
        /\ \A c \in Range(req.categories) :
              /\ TasksFor("category", c) # {}
              /\ tasks[LastFor("category", c)].zipcode = req.zip
              /\ response.category_deals[c] = tasks[LastFor("category", c)].result

\* a stores list with "slickdeals" in the middle and a store after it, a
\* category, and three results that differ from one another
C8_Witness ==
    /\ pc = "done"
    /\ response.status = 200
    /\ Len(req.stores) = 2
    /\ req.stores[1] = "slickdeals"
    /\ req.stores[2] = "amazon"
    /\ req.categories = <<"restaurants">>
    /\ response.slickdeals # <<>>
    /\ response.store_deals["amazon"] # <<>>
    /\ response.category_deals["restaurants"] # <<>>

\* C9: no response while a task of the request is still pending: once the
\* handler has answered, every task it made is done.
C9_NoEarlyReturn ==
    (pc = "done" \/ response.status # 0) => \A i \in DOMAIN tasks : tasks[i].status = "done"

C9_Witness ==
    /\ pc = "done"
    /\ response.status = 200
    /\ Len(tasks) >= 3
    /\ \E i \in DOMAIN tasks : tasks[i].failed
    /\ \E i \in DOMAIN tasks : tasks[i].result # <<>>

\* C10: the timestamp of a 200 response is read after the last task
\* settled, and so after the request arrived.
C10_TimestampAfterGather ==
    (pc = "done" /\ response.status = 200 /\ req # NoRequest) =>
        /\ \A i \in DOMAIN tasks : tasks[i].status = "done"
        /\ response.timestamp > lastSettledAt
        /\ response.timestamp > arrivedAt

C10_Witness ==
    /\ pc = "done"
    /\ response.status = 200
    /\ Len(tasks) >= 2
    /\ lastSettledAt > arrivedAt + 1
    /\ response.timestamp = lastSettledAt + 1

====
